---- MODULE Spec2Model ----
(***************************************************************************)
(* State-machine model of the FGP Blender daemon runtime:                  *)
(*   - the asynchronous job queue  (src/blender/src/fgp_blender/jobs.py)   *)
(*   - the main-thread execution bridge and socket loop                    *)
(*     (src/blender/scripts/run_daemon_gui_v2.py)                          *)
(*   - the session manager (src/blender/src/fgp_blender/session.py)       *)
(* Each part has its own specification (SpecJobs, SpecBridge,              *)
(* SpecSessions, SpecSessionRace); the variables of the other parts stay   *)
(* at their initial values.                                                *)
(***************************************************************************)
EXTENDS Integers, Sequences, FiniteSets, TLC

(***************************************************************************)
(* Bounds of the model.                                                    *)
(***************************************************************************)
\* number of jobs submit() may create over all process lifetimes
MaxJobs == 2
\* number of process restarts (crash or stop, then a new JobQueue)
MaxRestarts == 1
\* number of connections the socket loop accepts
MaxConns == 3
\* number of sessions create() may allocate over all process lifetimes
MaxSessions == 2
\* the latest reading of the clock
MaxTime == 1

(***************************************************************************)
(* Program constants.                                                      *)
(***************************************************************************)
\* JobQueue.__init__(max_workers=2)
MaxWorkers == 2
\* _save_jobs keeps the 100 most recent jobs
SaveLimit == 100

JobIds == 1..MaxJobs
\* worker threads that can be alive at once: the max_workers threads of the
\* latest start(), and one older thread per job whose handler outlived a stop()
Workers == 1..(MaxWorkers + MaxJobs)

\* JobStatus
PENDING == "pending"
RUNNING == "running"
COMPLETED == "completed"
FAILED == "failed"
CANCELLED == "cancelled"
Terminal == {COMPLETED, FAILED, CANCELLED}

\* Python None
None == "None"
\* completed_at = None (timestamps are clock readings, so None is a number too)
NoTime == -1
\* a worker thread that holds no job id (job ids are numbers)
NoJob == 0

\* progress is modelled in tenths: 0 is 0.0, 10 is 1.0
ProgressInputs == {-5, 5, 15}

\* threads
AffineThread == "affine"
WorkerThread(w) == <<"fgp-blender-worker", w>>

VARIABLES
    \* ---- JobQueue ----
    jobs,          \* _jobs: job id -> Job
    handlers,      \* _handlers: ids with a stored handler
    queue,         \* _queue: FIFO of job ids
    running,       \* _running
    wpc,           \* position of each worker thread
    wjob,          \* job id a worker took off the queue
    toPut,         \* submit(): ids recorded but not yet put on the queue
    disk,          \* jobs.json: job id -> persisted Job
    nextId,        \* next fresh job id (uuid4)
    epoch,         \* number of restarts so far
    \* history of the job queue
    invoked,       \* job id -> handler invocations in this process
    cancelledOk,   \* ids for which cancel returned True in this process
    loaded,        \* job id -> status read from jobs.json at the last load
    ret,           \* the last call and what it returned
    stoppc,        \* position of the thread that called stop()
    waiting,       \* the wait() call in progress
    \* ---- bridge / socket loop ----
    operation_queue, \* FIFO of (request_id, method, params)
    result_store,    \* request id -> (status, data)
    result_events,   \* request id -> event object
    eventSet,        \* event objects whose flag is set
    spc,             \* position of the socket thread
    conn,            \* the connection being handled
    accepted,        \* connections accepted so far: number -> what the client sends
    responses,       \* connection -> responses written to it
    closed,          \* connections closed by the server
    apc,             \* position of the affine thread
    aitem,           \* the operation the affine thread is executing
    counter,         \* worker-native state mutated by operations
    \* history of the bridge
    enqLog,          \* requests in the order they were put on operation_queue
    execLog,         \* operations executed, in order, with the counter value
    \* ---- SessionManager ----
    sessions,           \* self.sessions: session id -> Session
    current_session_id, \* self.current_session_id
    sfile,              \* sessions.json: the persisted index
    blendFiles,         \* session ids whose backing .blend file exists
    snow,               \* datetime.now(): the clock
    nextSid,            \* next fresh session id (uuid4)
    sret,               \* the last call and what it returned or raised
    tpc,                \* position of each thread inside switch / delete
    targ                \* the session id a thread's call was given

callVars == <<stoppc, waiting>>
jobVars == <<jobs, handlers, queue, running, wpc, wjob, toPut, disk, nextId,
             epoch, invoked, cancelledOk, loaded, ret, callVars>>
bridgeVars == <<operation_queue, result_store, result_events, eventSet, spc,
                conn, accepted, responses, closed, apc, aitem, counter, enqLog,
                execLog>>
sessVars == <<sessions, current_session_id, sfile, blendFiles, snow, nextSid,
              sret, tpc, targ>>
vars == <<jobVars, bridgeVars, sessVars>>

(***************************************************************************)
(* Job queue                                                               *)
(***************************************************************************)
\* A Job is modelled by its status, progress, result, error and timestamps.
\* created_at is the ordinal of the submit (only its order is used),
\* started_at is None or "set", completed_at is the reading of the clock
\* (snow) at the moment it is written.
EmptyMap == [x \in {} |-> None]

\* variant: a submit that records the job as already half done
NewJobHalfDone(now) ==
    [status |-> PENDING, progress |-> 5, result |-> None, error |-> None,
     created_at |-> now, started_at |-> None, completed_at |-> NoTime]

\* Job(...) as submit() builds it
NewJob(now) ==
    [status |-> PENDING, progress |-> 0, result |-> None, error |-> None,
     created_at |-> now, started_at |-> None, completed_at |-> NoTime]

\* float("nan") on the tenths scale: a value that no comparison orders
NaN == -999

\* what a handler may pass to progress_callback
AnyProgress == ProgressInputs \cup {NaN}

\* a > b on floats: false whenever an operand is NaN
PyGreater(a, b) == a # NaN /\ b # NaN /\ a > b

\* max(a, b): the first argument unless the second is greater
PyMax(a, b) == IF PyGreater(b, a) THEN b ELSE a

\* min(a, b): the first argument unless the second is smaller
PyMin(a, b) == IF PyGreater(a, b) THEN b ELSE a

\* min(max(progress, 0.0), 1.0)
Clamp(p) == PyMin(PyMax(p, 0), 10)

\* variant: a save that takes the slice from the wrong end of the sort
SaveJobsOldest(js) ==
    [j \in {i \in DOMAIN js :
               Cardinality({k \in DOMAIN js :
                               js[k].created_at < js[i].created_at})
                   < SaveLimit} |-> js[j]]

\* sorted(..., key=created_at, reverse=True)[:100]
RecentIds(js) ==
    {j \in DOMAIN js :
        Cardinality({k \in DOMAIN js : js[k].created_at > js[j].created_at})
            < SaveLimit}

\* _save_jobs: the file is rewritten with the most recent jobs
SaveJobs(js) == [j \in RecentIds(js) |-> js[j]]

\* the order of the "jobs" array of the file: newest first
RECURSIVE FileOrder(_, _)
FileOrder(d, S) ==
    IF S = {} THEN <<>>
    ELSE LET j == CHOOSE x \in S : \A y \in S : d[y].created_at <= d[x].created_at
         IN <<j>> \o FileOrder(d, S \ {j})

\* variant: a load that keeps the persisted status
LoadStatusKeepRunning(s) == s

\* _load_jobs: status of a loaded job
LoadStatus(s) == IF s \in {PENDING, RUNNING} THEN PENDING ELSE s

\* _load_jobs: one job
LoadJob(rec) ==
    IF rec.status \in {PENDING, RUNNING}
    THEN [rec EXCEPT !.status = LoadStatus(rec.status), !.progress = 0]
    ELSE rec

\* _load_jobs: the job table
LoadJobs(d) == [j \in DOMAIN d |-> LoadJob(d[j])]

\* _load_jobs: ids put on the queue, in file order
LoadQueue(d) ==
    SelectSeq(FileOrder(d, DOMAIN d), LAMBDA j : d[j].status \in {PENDING, RUNNING})

\* variant: a cancel that also accepts Running jobs
CancelAllowedNotTerminal(job) == job.status \in {PENDING, RUNNING}

\* cancel: "Can only cancel pending jobs"
CancelAllowed(job) == job.status = PENDING

\* variant: a cancel that leaves the stored handler in place
HandlersKept(hs, j) == hs

\* cancel: self._handlers.pop(job_id, None)
HandlersAfterCancel(hs, j) == hs \ {j}

\* variant: a failure without a handler that records no error
FailNoHandlerSilent(job) == [job EXCEPT !.status = FAILED]

\* _process_job: if not handler: status = FAILED, error = "No handler registered"
FailNoHandler(job) ==
    [job EXCEPT !.status = FAILED, !.error = "No handler registered"]

\* variant: an exception that leaves the job as it was, Running
RaisedLeftRunning(job, now) == job

\* variant: a failure that drops the exception message
FailRaisedNoMessage(job, now) ==
    [job EXCEPT !.status = FAILED, !.completed_at = now]

\* _process_job: except Exception as e: status = FAILED, completed_at = now,
\* error = str(e)
FailRaised(job, now) ==
    [job EXCEPT !.status = FAILED, !.completed_at = now, !.error = "exception"]

\* variant: a get that leaves the id on the queue
QueueKept(q) == q

\* self._queue.get(): the queue without the id taken
QueueAfterGet(q) == Tail(q)

NoCall == <<"none">>

\* no wait() call in progress
NoWait == [job |-> 0, timeout |-> 0, expired |-> FALSE]

\* _worker_loop: "while self._running" as a thread evaluates it when it comes
\* back to the top of the loop
LoopTop == IF running THEN "loop" ELSE "exited"

\* threads that start() has created and that have not returned from
\* _worker_loop
Live == {w \in Workers : wpc[w] \notin {"unstarted", "exited"}}

\* slots for new threads
Free == Workers \ Live

\* the n lowest elements of S
Lowest(S, n) == {x \in S : Cardinality({y \in S : y < x}) < n}

InitJobs ==
    /\ jobs = EmptyMap
    /\ handlers = {}
    /\ queue = <<>>
    /\ running = FALSE
    /\ wpc = [w \in Workers |-> "unstarted"]
    /\ wjob = [w \in Workers |-> NoJob]
    /\ toPut = {}
    /\ disk = EmptyMap
    /\ nextId = 1
    /\ epoch = 0
    /\ invoked = [j \in JobIds |-> 0]
    /\ cancelledOk = {}
    /\ loaded = EmptyMap
    /\ ret = NoCall
    /\ stoppc = "idle"
    /\ waiting = NoWait

\* ids of the jobs of a persisted log written by an earlier process
OldIds == (0 - SaveLimit)..(0 - 1)

\* the oldest of them
OldestId == 0 - SaveLimit

\* a full jobs.json left by an earlier process: SaveLimit jobs, the oldest
\* still Pending when that process ended, the others Completed
FullLog ==
    [j \in OldIds |->
        IF j = OldestId
        THEN NewJob(j)
        ELSE [NewJob(j) EXCEPT !.status = COMPLETED, !.progress = 10,
                               !.started_at = "set", !.completed_at = 0]]

\* __init__ with a full jobs.json on disk: _load_jobs has run
InitJobsFromLog ==
    /\ jobs = LoadJobs(FullLog)
    /\ handlers = {}
    /\ queue = LoadQueue(FullLog)
    /\ running = FALSE
    /\ wpc = [w \in Workers |-> "unstarted"]
    /\ wjob = [w \in Workers |-> NoJob]
    /\ toPut = {}
    /\ disk = FullLog
    /\ nextId = 1
    /\ epoch = 0
    /\ invoked = [j \in JobIds |-> 0]
    /\ cancelledOk = {}
    /\ loaded = [j \in OldIds |-> FullLog[j].status]
    /\ ret = NoCall
    /\ stoppc = "idle"
    /\ waiting = NoWait

\* submit(), the part under the lock
Submit ==
    /\ UNCHANGED <<bridgeVars, sessVars, callVars>>
    /\ nextId <= MaxJobs
    /\ LET j == nextId
           js == (j :> NewJob(j)) @@ jobs
       IN /\ jobs' = js
          /\ handlers' = handlers \cup {j}
          /\ disk' = SaveJobs(js)
          /\ toPut' = toPut \cup {j}
          /\ nextId' = nextId + 1
          /\ ret' = <<"submit", j>>
    /\ UNCHANGED <<queue, running, wpc, wjob, epoch, invoked, cancelledOk, loaded>>

\* submit(): self._queue.put(job_id)
SubmitPut(j) ==
    /\ UNCHANGED <<bridgeVars, sessVars, callVars>>
    /\ j \in toPut
    /\ queue' = Append(queue, j)
    /\ toPut' = toPut \ {j}
    /\ ret' = NoCall
    /\ UNCHANGED <<jobs, handlers, running, wpc, wjob, disk, nextId, epoch,
                   invoked, cancelledOk, loaded>>

\* cancel(job_id)
Cancel(j) ==
    /\ UNCHANGED <<bridgeVars, sessVars, callVars>>
    /\ IF j \in DOMAIN jobs /\ CancelAllowed(jobs[j])
       THEN LET js == [jobs EXCEPT ![j].status = CANCELLED,
                                   ![j].completed_at = snow]
            IN /\ jobs' = js
               /\ handlers' = HandlersAfterCancel(handlers, j)
               /\ disk' = SaveJobs(js)
               /\ cancelledOk' = cancelledOk \cup {j}
               /\ ret' = <<"cancel", j, TRUE>>
               /\ UNCHANGED <<queue, running, wpc, wjob, toPut, nextId, epoch,
                              invoked, loaded>>
       ELSE /\ ret' = <<"cancel", j, FALSE>>
            /\ UNCHANGED <<jobs, handlers, queue, running, wpc, wjob, toPut,
                           disk, nextId, epoch, invoked, cancelledOk, loaded>>

\* start()
Start ==
    /\ UNCHANGED <<bridgeVars, sessVars, callVars>>
    /\ stoppc = "idle"
    /\ ~running
    /\ Cardinality(Free) >= MaxWorkers
    /\ running' = TRUE
    /\ wpc' = [w \in Workers |->
                IF w \in Lowest(Free, MaxWorkers) THEN "loop" ELSE wpc[w]]
    /\ ret' = NoCall
    /\ UNCHANGED <<jobs, handlers, queue, wjob, toPut, disk, nextId, epoch,
                   invoked, cancelledOk, loaded>>

\* _worker_loop: job_id = self._queue.get(timeout=1.0).  A thread at "loop"
\* has seen _running true and is inside the get.
WorkerGet(w) ==
    /\ UNCHANGED <<bridgeVars, sessVars, callVars>>
    /\ wpc[w] = "loop"
    /\ queue # <<>>
    /\ wpc' = [wpc EXCEPT ![w] = "got"]
    /\ queue' = QueueAfterGet(queue)
    /\ wjob' = [wjob EXCEPT ![w] = Head(queue)]
    /\ ret' = NoCall
    /\ UNCHANGED <<jobs, handlers, running, toPut, disk, nextId, epoch,
                   invoked, cancelledOk, loaded>>

\* _process_job, the first section under the lock
WorkerClaim(w) ==
    /\ UNCHANGED <<bridgeVars, sessVars, callVars>>
    /\ wpc[w] = "got"
    /\ LET j == wjob[w] IN
       IF j \notin DOMAIN jobs
       THEN /\ wpc' = [wpc EXCEPT ![w] = LoopTop]
            /\ wjob' = [wjob EXCEPT ![w] = NoJob]
            /\ UNCHANGED <<jobs, disk, invoked>>
       ELSE IF j \notin handlers
       THEN LET js == [jobs EXCEPT ![j] = FailNoHandler(@)]
            IN /\ jobs' = js
               /\ disk' = SaveJobs(js)
               /\ wpc' = [wpc EXCEPT ![w] = LoopTop]
               /\ wjob' = [wjob EXCEPT ![w] = NoJob]
               /\ UNCHANGED invoked
       ELSE LET js == [jobs EXCEPT ![j].status = RUNNING,
                                   ![j].started_at = "set"]
            IN /\ jobs' = js
               /\ disk' = SaveJobs(js)
               /\ wpc' = [wpc EXCEPT ![w] = "handler"]
               /\ invoked' = [invoked EXCEPT ![j] = @ + 1]
               /\ UNCHANGED wjob
    /\ ret' = NoCall
    /\ UNCHANGED <<handlers, queue, running, toPut, nextId, epoch, cancelledOk,
                   loaded>>

\* progress_callback(progress, message), called by the handler
WorkerProgress(w, p) ==
    /\ UNCHANGED <<bridgeVars, sessVars, callVars>>
    /\ wpc[w] = "handler"
    /\ LET j == wjob[w] IN
       jobs' = IF j \in DOMAIN jobs
               THEN [jobs EXCEPT ![j].progress = Clamp(p)]
               ELSE jobs
    /\ ret' = NoCall
    /\ UNCHANGED <<handlers, queue, running, wpc, wjob, toPut, disk, nextId,
                   epoch, invoked, cancelledOk, loaded>>

\* _process_job: the handler returned
WorkerReturn(w) ==
    /\ UNCHANGED <<bridgeVars, sessVars, callVars>>
    /\ wpc[w] = "handler"
    /\ LET j == wjob[w]
           js == [jobs EXCEPT ![j].status = COMPLETED,
                              ![j].completed_at = snow,
                              ![j].progress = 10,
                              ![j].result = "result"]
       IN /\ jobs' = js
          /\ disk' = SaveJobs(js)
    /\ wpc' = [wpc EXCEPT ![w] = "finally"]
    /\ ret' = NoCall
    /\ UNCHANGED <<handlers, queue, running, wjob, toPut, nextId, epoch,
                   invoked, cancelledOk, loaded>>

\* _process_job: the handler raised
WorkerRaise(w) ==
    /\ UNCHANGED <<bridgeVars, sessVars, callVars>>
    /\ wpc[w] = "handler"
    /\ LET j == wjob[w]
           js == [jobs EXCEPT ![j] = FailRaised(@, snow)]
       IN /\ jobs' = js
          /\ disk' = SaveJobs(js)
    /\ wpc' = [wpc EXCEPT ![w] = "finally"]
    /\ ret' = NoCall
    /\ UNCHANGED <<handlers, queue, running, wjob, toPut, nextId, epoch,
                   invoked, cancelledOk, loaded>>

\* _process_job: finally: self._handlers.pop(job_id, None)
WorkerFinally(w) ==
    /\ UNCHANGED <<bridgeVars, sessVars, callVars>>
    /\ wpc[w] = "finally"
    /\ handlers' = handlers \ {wjob[w]}
    /\ wpc' = [wpc EXCEPT ![w] = LoopTop]
    /\ wjob' = [wjob EXCEPT ![w] = NoJob]
    /\ ret' = NoCall
    /\ UNCHANGED <<jobs, queue, running, toPut, disk, nextId, epoch, invoked,
                   cancelledOk, loaded>>

\* _worker_loop: the get timed out (queue.Empty) and _running is false: the
\* thread returns
WorkerExit(w) ==
    /\ UNCHANGED <<bridgeVars, sessVars, callVars>>
    /\ wpc[w] = "loop"
    /\ ~running
    /\ wpc' = [wpc EXCEPT ![w] = "exited"]
    /\ ret' = NoCall
    /\ UNCHANGED <<jobs, handlers, queue, running, wjob, toPut, disk, nextId,
                   epoch, invoked, cancelledOk, loaded>>

\* stop(): self._running = False
Stop ==
    /\ UNCHANGED <<bridgeVars, sessVars>>
    /\ stoppc = "idle"
    /\ running' = FALSE
    /\ stoppc' = "join"
    /\ ret' = NoCall
    /\ UNCHANGED <<jobs, handlers, queue, wpc, wjob, toPut, disk, nextId, epoch,
                   invoked, cancelledOk, loaded, waiting>>

\* stop(): every worker.join(timeout=5.0) has returned; self._workers.clear();
\* self._save_jobs().  A thread that is not inside a handler leaves the loop
\* within the 1 s of its queue.get, so the joins end with every thread either
\* gone or still inside a handler (the join timed out).
StopSave ==
    /\ UNCHANGED <<bridgeVars, sessVars>>
    /\ stoppc = "join"
    /\ \A w \in Workers : wpc[w] \in {"unstarted", "exited", "handler"}
    /\ disk' = SaveJobs(jobs)
    /\ stoppc' = "idle"
    /\ ret' = <<"stop">>
    /\ UNCHANGED <<jobs, handlers, queue, running, wpc, wjob, toPut, nextId,
                   epoch, invoked, cancelledOk, loaded, waiting>>

\* get(job_id)
Get(j) ==
    /\ UNCHANGED <<bridgeVars, sessVars, callVars>>
    /\ ret' = <<"get", j, IF j \in DOMAIN jobs THEN jobs[j].status ELSE None,
                IF j \in DOMAIN jobs THEN jobs[j].progress ELSE 0>>
    /\ UNCHANGED <<jobs, handlers, queue, running, wpc, wjob, toPut, disk,
                   nextId, epoch, invoked, cancelledOk, loaded>>

\* list(status=...): the ids of the jobs with that status (None: every job)
List(status) ==
    /\ UNCHANGED <<bridgeVars, sessVars, callVars>>
    /\ ret' = <<"list", status,
                {j \in DOMAIN jobs : status = None \/ jobs[j].status = status}>>
    /\ UNCHANGED <<jobs, handlers, queue, running, wpc, wjob, toPut, disk,
                   nextId, epoch, invoked, cancelledOk, loaded>>

\* timeout=None: no limit asked for (timeouts are numbers of seconds)
NoTimeout == -1

\* timeouts a caller gives to wait(): None, 0 (or 0.0), and 1 for any
\* positive number of seconds
WaitTimeouts == {NoTimeout, 0, 1}

\* "if timeout": the truth value Python gives to the argument
Truthy(t) == t # NoTimeout /\ t # 0

\* wait(job_id, timeout): start = time.time().  The time of the wait is
\* followed by one bit: whether time.time() - start has passed the timeout.
WaitCall(j, t) ==
    /\ UNCHANGED <<bridgeVars, sessVars>>
    /\ waiting = NoWait
    /\ waiting' = [job |-> j, timeout |-> t, expired |-> FALSE]
    /\ ret' = NoCall
    /\ UNCHANGED <<jobs, handlers, queue, running, wpc, wjob, toPut, disk,
                   nextId, epoch, invoked, cancelledOk, loaded, stoppc>>

\* time passes: time.time() - start exceeds the timeout of the wait
WaitExpire ==
    /\ UNCHANGED <<bridgeVars, sessVars>>
    /\ waiting # NoWait
    /\ waiting.timeout # NoTimeout
    /\ ~waiting.expired
    /\ waiting' = [waiting EXCEPT !.expired = TRUE]
    /\ ret' = NoCall
    /\ UNCHANGED <<jobs, handlers, queue, running, wpc, wjob, toPut, disk,
                   nextId, epoch, invoked, cancelledOk, loaded, stoppc>>

\* wait: if timeout and (time.time() - start) > timeout
WaitTimedOut(w) == Truthy(w.timeout) /\ w.expired

\* variant: a wait that hands back a job whatever its status
WaitDoneAnyStatus(job) == TRUE

\* wait: if job.status in (COMPLETED, FAILED, CANCELLED): return job
WaitDone(job) == job.status \in Terminal

\* wait: one round of the polling loop that ends the call (a round that
\* goes to sleep changes nothing)
WaitPoll ==
    /\ UNCHANGED <<bridgeVars, sessVars>>
    /\ waiting # NoWait
    /\ LET j == waiting.job IN
       IF j \notin DOMAIN jobs
       THEN ret' = <<"wait", j, None>>
       ELSE IF WaitDone(jobs[j])
       THEN ret' = <<"wait", j, jobs[j].status>>
       ELSE /\ WaitTimedOut(waiting)
            /\ ret' = <<"wait", j, None>>
    /\ waiting' = NoWait
    /\ UNCHANGED <<jobs, handlers, queue, running, wpc, wjob, toPut, disk,
                   nextId, epoch, invoked, cancelledOk, loaded, stoppc>>

\* cutoffs: datetime.now() - timedelta(hours=max_age_hours), for any
\* max_age_hours (negative ones put the cutoff after the present)
Cutoffs == 0..(MaxTime + 1)

\* variant: an eviction by age of creation, whatever the status
CleanupEligibleByCreation(job, cutoff) == job.created_at < cutoff

\* cleanup: status in (COMPLETED, FAILED, CANCELLED) and completed_at and
\* completed_at < cutoff_iso
CleanupEligible(job, cutoff) ==
    /\ job.status \in Terminal
    /\ job.completed_at # NoTime
    /\ job.completed_at < cutoff

\* cleanup(max_age_hours)
Cleanup(cutoff) ==
    /\ UNCHANGED <<bridgeVars, sessVars, callVars>>
    /\ LET gone == {j \in DOMAIN jobs : CleanupEligible(jobs[j], cutoff)}
           js == [j \in DOMAIN jobs \ gone |-> jobs[j]]
       IN /\ jobs' = js
          /\ disk' = IF Cardinality(gone) > 0 THEN SaveJobs(js) ELSE disk
          /\ ret' = <<"cleanup", Cardinality(gone)>>
    /\ UNCHANGED <<handlers, queue, running, wpc, wjob, toPut, nextId, epoch,
                   invoked, cancelledOk, loaded>>

\* the process ends at any point and a new one constructs JobQueue()
Restart ==
    /\ UNCHANGED <<bridgeVars, sessVars>>
    /\ stoppc' = "idle"
    /\ waiting' = NoWait
    /\ epoch < MaxRestarts
    /\ epoch' = epoch + 1
    /\ jobs' = LoadJobs(disk)
    /\ queue' = LoadQueue(disk)
    /\ handlers' = {}
    /\ running' = FALSE
    /\ wpc' = [w \in Workers |-> "unstarted"]
    /\ wjob' = [w \in Workers |-> NoJob]
    /\ toPut' = {}
    /\ invoked' = [j \in JobIds |-> 0]
    /\ cancelledOk' = {}
    /\ loaded' = [j \in DOMAIN disk |-> disk[j].status]
    /\ ret' = NoCall
    /\ UNCHANGED <<disk, nextId>>

(***************************************************************************)
(* Main-thread execution bridge and socket loop                            *)
(***************************************************************************)
\* ids a client may choose for its request
ReqIds == {"a", "b"}

\* what a client does on its connection:
\*   wellformed  one full line that decodes as a Request
\*   malformed   one full line (or bytes, then end of stream) that does not decode
\*   stall       bytes without a newline, then silence until the read times out
\*   empty       the peer closes without sending a byte
ConnKinds == {"wellformed", "malformed", "stall", "empty"}

\* Response.success(request.id, data, elapsed_ms); "of" is the request whose
\* operation produced the data
SuccessResponse(req_id, data) ==
    [id |-> req_id, ok |-> TRUE, code |-> None, message |-> None,
     of |-> data.n, value |-> data.value]

\* variant: a failure response that drops the exception message
ErrorResponseNoMessage(req_id, data) ==
    [id |-> req_id, ok |-> FALSE, code |-> "INTERNAL_ERROR",
     message |-> None, of |-> data.n, value |-> 0]

\* Response.error(request.id, ErrorCodes.INTERNAL_ERROR, data, elapsed_ms)
ErrorResponse(req_id, data) ==
    [id |-> req_id, ok |-> FALSE, code |-> "INTERNAL_ERROR",
     message |-> data.message, of |-> data.n, value |-> 0]

\* variant: a decode failure reported with the code of a failed operation
ParseErrorResponseInternal ==
    [id |-> "unknown", ok |-> FALSE, code |-> "INTERNAL_ERROR",
     message |-> "Invalid request", of |-> 0, value |-> 0]

\* Response.error(request_id="unknown", code=ErrorCodes.PARSE_ERROR, ...)
ParseErrorResponse ==
    [id |-> "unknown", ok |-> FALSE, code |-> "PARSE_ERROR",
     message |-> "Invalid request", of |-> 0, value |-> 0]

\* variant: a timeout response that loses the request id
TimeoutResponseUnknownId(req_id) ==
    [id |-> "unknown", ok |-> FALSE, code |-> "INTERNAL_ERROR",
     message |-> "Operation timed out", of |-> 0, value |-> 0]

\* Response.error(request.id, ErrorCodes.INTERNAL_ERROR, "Operation timed out", ...)
TimeoutResponse(req_id) ==
    [id |-> req_id, ok |-> FALSE, code |-> "INTERNAL_ERROR",
     message |-> "Operation timed out", of |-> 0, value |-> 0]

\* variant: a consumer that takes the newest item
TakeLast(q) == Len(q)

\* operation_queue.get_nowait(): the position of the item taken
TakeIndex(q) == 1

RemoveAt(q, i) == SubSeq(q, 1, i - 1) \o SubSeq(q, i + 1, Len(q))

\* a map without one key: dict.pop(key) / del dict[key]
Without(f, k) == [x \in DOMAIN f \ {k} |-> f[x]]

InitBridge ==
    /\ operation_queue = <<>>
    /\ result_store = EmptyMap
    /\ result_events = EmptyMap
    /\ eventSet = {}
    /\ spc = "accept"
    /\ conn = None
    /\ accepted = EmptyMap
    /\ responses = EmptyMap
    /\ closed = {}
    /\ apc = "idle"
    /\ aitem = None
    /\ counter = 0
    /\ enqLog = <<>>
    /\ execLog = <<>>

\* socket_server: conn, _ = sock.accept()
SockAccept(kind, id) ==
    /\ UNCHANGED <<jobVars, sessVars>>
    /\ spc = "accept"
    /\ Cardinality(DOMAIN accepted) < MaxConns
    /\ LET n == Cardinality(DOMAIN accepted) + 1
           c == [n |-> n, kind |-> kind,
                 id |-> IF kind = "wellformed" THEN id ELSE None]
       IN /\ conn' = c
          /\ accepted' = (n :> c) @@ accepted
          /\ responses' = (n :> <<>>) @@ responses
    /\ spc' = "recv"
    /\ UNCHANGED <<operation_queue, result_store, result_events, eventSet,
                   closed, apc, aitem, counter, enqLog, execLog>>

\* socket_server: the read loop got a line that decodes; handle_request
\* registers the completion event: result_events[request.id] = event
SockRecvRequest ==
    /\ UNCHANGED <<jobVars, sessVars>>
    /\ spc = "recv"
    /\ conn.kind = "wellformed"
    /\ result_events' = (conn.id :> conn.n) @@ result_events
    /\ spc' = "registered"
    /\ UNCHANGED <<operation_queue, result_store, eventSet, conn, accepted,
                   responses, closed, apc, aitem, counter, enqLog, execLog>>

\* socket_server / handle_request: the data does not decode as a Request:
\* a PARSE_ERROR response addressed to "unknown" is sent, the connection closed
SockRecvMalformed ==
    /\ UNCHANGED <<jobVars, sessVars>>
    /\ spc = "recv"
    /\ conn.kind = "malformed"
    /\ responses' = [responses EXCEPT ![conn.n] = Append(@, ParseErrorResponse)]
    /\ closed' = closed \cup {conn.n}
    /\ conn' = None
    /\ spc' = "accept"
    /\ UNCHANGED <<operation_queue, result_store, result_events, eventSet,
                   accepted, apc, aitem, counter, enqLog, execLog>>

\* socket_server: conn.recv raises socket.timeout before a newline arrived;
\* finally: conn.close(); except Exception: print
SockRecvTimeout ==
    /\ UNCHANGED <<jobVars, sessVars>>
    /\ spc = "recv"
    /\ conn.kind = "stall"
    /\ closed' = closed \cup {conn.n}
    /\ conn' = None
    /\ spc' = "accept"
    /\ UNCHANGED <<operation_queue, result_store, result_events, eventSet,
                   accepted, responses, apc, aitem, counter, enqLog, execLog>>

\* socket_server: the peer closed without data: "if data:" is false
SockRecvEmpty ==
    /\ UNCHANGED <<jobVars, sessVars>>
    /\ spc = "recv"
    /\ conn.kind = "empty"
    /\ closed' = closed \cup {conn.n}
    /\ conn' = None
    /\ spc' = "accept"
    /\ UNCHANGED <<operation_queue, result_store, result_events, eventSet,
                   accepted, responses, apc, aitem, counter, enqLog, execLog>>

\* handle_request: operation_queue.put((request.id, request.method, request.params))
SockEnqueue ==
    /\ UNCHANGED <<jobVars, sessVars>>
    /\ spc = "registered"
    /\ operation_queue' = Append(operation_queue, [n |-> conn.n, id |-> conn.id])
    /\ enqLog' = Append(enqLog, conn.n)
    /\ spc' = "wait"
    /\ UNCHANGED <<result_store, result_events, eventSet, conn, accepted,
                   responses, closed, apc, aitem, counter, execLog>>

\* handle_request: event.wait(timeout=30.0) returned True;
\* status, data = result_store.pop(request.id, ("error", "No result"))
SockWaitOk ==
    /\ UNCHANGED <<jobVars, sessVars>>
    /\ spc = "wait"
    /\ conn.n \in eventSet
    /\ LET got == IF conn.id \in DOMAIN result_store
                  THEN result_store[conn.id]
                  ELSE [status |-> "error", n |-> 0, value |-> 0,
                        message |-> "No result"]
       IN conn' = [n |-> conn.n, kind |-> conn.kind, id |-> conn.id, got |-> got]
    /\ result_store' = Without(result_store, conn.id)
    /\ spc' = "popped"
    /\ UNCHANGED <<operation_queue, result_events, eventSet, accepted,
                   responses, closed, apc, aitem, counter, enqLog, execLog>>

\* handle_request: del result_events[request.id]; the response is built,
\* sent (conn.sendall) and the connection closed. A missing key raises
\* KeyError, which socket_server catches after closing the connection.
SockRespond ==
    /\ UNCHANGED <<jobVars, sessVars>>
    /\ spc = "popped"
    /\ IF conn.id \in DOMAIN result_events
       THEN /\ result_events' = Without(result_events, conn.id)
            /\ responses' = [responses EXCEPT ![conn.n] =
                    Append(@, IF conn.got.status = "ok"
                              THEN SuccessResponse(conn.id, conn.got)
                              ELSE ErrorResponse(conn.id, conn.got))]
       ELSE UNCHANGED <<result_events, responses>>
    /\ closed' = closed \cup {conn.n}
    /\ conn' = None
    /\ spc' = "accept"
    /\ UNCHANGED <<operation_queue, result_store, eventSet, accepted, apc,
                   aitem, counter, enqLog, execLog>>

\* variant: a timeout branch that withdraws the abandoned operation
QueueWithoutRequest(q, n) == SelectSeq(q, LAMBDA it : it.n # n)

\* handle_request, timeout branch: operation_queue is not touched
QueueAfterTimeout(q, n) == q

\* handle_request: event.wait(timeout=30.0) returned False; the response
\* "Operation timed out" is sent and the connection closed
SockWaitTimeout ==
    /\ UNCHANGED <<jobVars, sessVars>>
    /\ spc = "wait"
    /\ conn.n \notin eventSet
    /\ responses' = [responses EXCEPT ![conn.n] = Append(@, TimeoutResponse(conn.id))]
    /\ operation_queue' = QueueAfterTimeout(operation_queue, conn.n)
    /\ closed' = closed \cup {conn.n}
    /\ conn' = None
    /\ spc' = "accept"
    /\ UNCHANGED <<result_store, result_events, eventSet,
                   accepted, apc, aitem, counter, enqLog, execLog>>

\* the timer calls process_queue on the main thread
AffineTick ==
    /\ UNCHANGED <<jobVars, sessVars>>
    /\ apc = "idle"
    /\ apc' = "drain"
    /\ UNCHANGED <<operation_queue, result_store, result_events, eventSet, spc,
                   conn, accepted, responses, closed, aitem, counter, enqLog,
                   execLog>>

\* process_queue: request_id, method, params = operation_queue.get_nowait()
AffineTake ==
    /\ UNCHANGED <<jobVars, sessVars>>
    /\ apc = "drain"
    /\ operation_queue # <<>>
    /\ LET i == TakeIndex(operation_queue)
       IN /\ aitem' = operation_queue[i]
          /\ operation_queue' = RemoveAt(operation_queue, i)
    /\ apc' = "exec"
    /\ UNCHANGED <<result_store, result_events, eventSet, spc, conn, accepted,
                   responses, closed, counter, enqLog, execLog>>

\* process_queue: except queue.Empty: break; return 0.01
AffineBreak ==
    /\ UNCHANGED <<jobVars, sessVars>>
    /\ apc = "drain"
    /\ operation_queue = <<>>
    /\ apc' = "idle"
    /\ UNCHANGED <<operation_queue, result_store, result_events, eventSet, spc,
                   conn, accepted, responses, closed, aitem, counter, enqLog,
                   execLog>>

\* process_queue: the operation starts: it reads the worker-native state
AffineRead ==
    /\ UNCHANGED <<jobVars, sessVars>>
    /\ apc = "exec"
    /\ aitem' = [n |-> aitem.n, id |-> aitem.id, seen |-> counter]
    /\ apc' = "write"
    /\ UNCHANGED <<operation_queue, result_store, result_events, eventSet, spc,
                   conn, accepted, responses, closed, counter, enqLog, execLog>>

\* process_queue: the operation writes the worker-native state and returns
AffineWrite ==
    /\ UNCHANGED <<jobVars, sessVars>>
    /\ apc = "write"
    /\ counter' = aitem.seen + 1
    /\ LET res == [status |-> "ok", n |-> aitem.n, value |-> aitem.seen + 1,
                   message |-> None]
       IN /\ aitem' = [n |-> aitem.n, id |-> aitem.id, result |-> res]
          /\ execLog' = Append(execLog, res)
    /\ apc' = "store"
    /\ UNCHANGED <<operation_queue, result_store, result_events, eventSet, spc,
                   conn, accepted, responses, closed, enqLog>>

\* process_queue: the operation raises: except Exception as e
AffineRaise ==
    /\ UNCHANGED <<jobVars, sessVars>>
    /\ apc = "exec"
    /\ LET res == [status |-> "error", n |-> aitem.n, value |-> 0,
                   message |-> "exception"]
       IN /\ aitem' = [n |-> aitem.n, id |-> aitem.id, result |-> res]
          /\ execLog' = Append(execLog, res)
    /\ apc' = "store"
    /\ UNCHANGED <<operation_queue, result_store, result_events, eventSet, spc,
                   conn, accepted, responses, closed, counter, enqLog>>

\* process_queue: elif method == "stop": result = {"stopping": True}.  The
\* method is the client's choice; this is the first place that looks at it.
AffineStop ==
    /\ UNCHANGED <<jobVars, sessVars>>
    /\ apc = "exec"
    /\ LET res == [status |-> "ok", n |-> aitem.n, value |-> 0,
                   message |-> "stopping"]
       IN /\ aitem' = [n |-> aitem.n, id |-> aitem.id, result |-> res]
          /\ execLog' = Append(execLog, res)
    /\ apc' = "store"
    /\ UNCHANGED <<operation_queue, result_store, result_events, eventSet, spc,
                   conn, accepted, responses, closed, counter, enqLog>>

\* process_queue: result_store[request_id] = (status, result)
AffineStore ==
    /\ UNCHANGED <<jobVars, sessVars>>
    /\ apc = "store"
    /\ result_store' = (aitem.id :> aitem.result) @@ result_store
    /\ apc' = "signal"
    /\ UNCHANGED <<operation_queue, result_events, eventSet, spc, conn,
                   accepted, responses, closed, aitem, counter, enqLog, execLog>>

\* process_queue: if request_id in result_events: result_events[request_id].set()
AffineSignal ==
    /\ UNCHANGED <<jobVars, sessVars>>
    /\ apc = "signal"
    /\ eventSet' = IF aitem.id \in DOMAIN result_events
                   THEN eventSet \cup {result_events[aitem.id]}
                   ELSE eventSet
    /\ aitem' = None
    /\ apc' = "drain"
    /\ UNCHANGED <<operation_queue, result_store, result_events, spc, conn,
                   accepted, responses, closed, counter, enqLog, execLog>>

\* threads that are executing code that writes worker-native (bpy) state:
\* a job worker inside a handler (render_handler sets scene.render.filepath
\* and calls bpy.ops.render.render), the affine thread inside an operation
NativeMutators ==
    {WorkerThread(w) : w \in {x \in Workers : wpc[x] = "handler"}}
        \cup (IF apc \in {"exec", "write"} THEN {AffineThread} ELSE {})

(***************************************************************************)
(* Session manager                                                         *)
(***************************************************************************)
\* session_id = "default"
DefaultId == 0
\* current_session_id = None
NoSession == -1
\* ids create() allocates: str(uuid.uuid4())[:8]
SessIds == 1..MaxSessions
\* names a caller gives to create()
Names == {"A"}
\* metadata or {}
EmptyMeta == "{}"
\* threads that call the SessionManager
Threads == {"t1", "t2"}

\* A Session is modelled by its name, is_default, modified_at and metadata.
\* blend_file is a function of the id (blendFiles holds the ids whose file
\* exists); created_at is written once with the same clock reading as
\* modified_at and never read or written again.

\* variant: a create() that flags the new session as default
NewSessionDefault(name, now) ==
    [name |-> name, is_default |-> TRUE,
     modified_at |-> now, metadata |-> EmptyMeta]

\* Session(...) as create() builds it
NewSession(name, now) ==
    [name |-> name, is_default |-> FALSE,
     modified_at |-> now, metadata |-> EmptyMeta]

\* Session(...) as _create_default_session builds it
DefaultSession(now) ==
    [name |-> "Default", is_default |-> TRUE,
     modified_at |-> now, metadata |-> EmptyMeta]

\* _save_sessions: {"sessions": [...], "current": ...}
SaveIndex(ss, cur) == [sessions |-> ss, current |-> cur]

\* no sessions.json yet: _load_sessions returns at once
NoIndexFile == [sessions |-> EmptyMap, current |-> NoSession]

\* variant: a load that does not look for the backing file
LoadKeepsAll(files, sid) == TRUE

\* _load_sessions: "Only load if blend file still exists"
LoadKeeps(files, sid) == sid \in files

\* _load_sessions: the index after the load
LoadSessions(f, files) ==
    [sid \in {x \in DOMAIN f.sessions : LoadKeeps(files, x)} |-> f.sessions[sid]]

\* any(s.is_default for s in self.sessions.values())
HasDefault(ss) == \E sid \in DOMAIN ss : ss[sid].is_default

\* next((s for s in self.sessions.values() if s.is_default), None)
DefaultOf(ss) ==
    IF HasDefault(ss) THEN CHOOSE sid \in DOMAIN ss : ss[sid].is_default
    ELSE NoSession

\* __init__: the index after _load_sessions and _create_default_session
BootSessions(f, files, now) ==
    LET l == LoadSessions(f, files)
    IN IF HasDefault(l) THEN l ELSE (DefaultId :> DefaultSession(now)) @@ l

\* __init__: sessions.json after boot (_create_default_session saves, with
\* current_session_id still None)
BootFile(f, files, now) ==
    IF HasDefault(LoadSessions(f, files)) THEN f
    ELSE SaveIndex(BootSessions(f, files, now), NoSession)

\* variant: a switch that never reports a missing session
SwitchFoundAlways(ss, sid) == TRUE

\* switch: session = self.sessions.get(session_id); if not session: raise
SwitchFound(ss, sid) == sid \in DOMAIN ss

\* variant: a delete that accepts the default session
DeleteRefusedNever(session) == FALSE

\* delete: if session.is_default: raise ValueError
DeleteRefused(session) == session.is_default

\* variant: a delete that leaves the pointer on the deleted session
CurrentKept(cur, sid, ss) == cur

\* variant: a delete that always re-points to the default session
CurrentToDefault(cur, sid, ss) == DefaultOf(ss)

\* delete: "Switch to default if this was current"; ss is the index after
\* the removal
CurrentAfterDelete(cur, sid, ss) ==
    IF cur = sid /\ HasDefault(ss) THEN DefaultOf(ss) ELSE cur

\* variant: an unlink that leaves the file
FilesKept(files, sid) == files

\* if blend_path.exists(): blend_path.unlink()
FilesAfterUnlink(files, sid) == files \ {sid}

\* variant: a reset that keeps the old timestamp
ModifiedKept(old, now) == old

\* session.modified_at = datetime.now(timezone.utc).isoformat()
ModifiedAt(old, now) == now

\* sid = session_id or self.current_session_id
OrCurrent(arg) == IF arg = NoSession THEN current_session_id ELSE arg

NoSessCall == <<"none">>
NotFoundError == "ValueError: Session not found"
DefaultError == "ValueError: Cannot delete default session"
NoCurrentError == "ValueError: No session specified and no current session"

\* the first SessionManager() of an installation: no index file, no backing files
InitSessions ==
    /\ sessions = BootSessions(NoIndexFile, {}, 0)
    /\ current_session_id = DefaultOf(BootSessions(NoIndexFile, {}, 0))
    /\ sfile = BootFile(NoIndexFile, {}, 0)
    /\ blendFiles = {}
    /\ snow = 0
    /\ nextSid = 1
    /\ sret = NoSessCall
    /\ tpc = [t \in Threads |-> "idle"]
    /\ targ = [t \in Threads |-> NoSession]

AllIdle == \A t \in Threads : tpc[t] = "idle"

\* time passes
STick ==
    /\ UNCHANGED <<jobVars, bridgeVars>>
    /\ snow < MaxTime
    /\ snow' = snow + 1
    /\ sret' = NoSessCall
    /\ UNCHANGED <<sessions, current_session_id, sfile, blendFiles, nextSid,
                   tpc, targ>>

\* create(name, metadata)
SCreate(name) ==
    /\ UNCHANGED <<jobVars, bridgeVars>>
    /\ nextSid <= MaxSessions
    /\ LET ss == (nextSid :> NewSession(name, snow)) @@ sessions
       IN /\ sessions' = ss
          /\ sfile' = SaveIndex(ss, current_session_id)
          /\ sret' = <<"create", nextSid>>
    /\ nextSid' = nextSid + 1
    /\ UNCHANGED <<current_session_id, blendFiles, snow, tpc, targ>>

\* get(session_id)
SGet(sid) ==
    /\ UNCHANGED <<jobVars, bridgeVars>>
    /\ AllIdle
    /\ sret' = <<"get", sid, sid \in DOMAIN sessions>>
    /\ UNCHANGED <<sessions, current_session_id, sfile, blendFiles, snow,
                   nextSid, tpc, targ>>

\* get_current()
SGetCurrent ==
    /\ UNCHANGED <<jobVars, bridgeVars>>
    /\ AllIdle
    /\ sret' = <<"get_current",
                 IF current_session_id # NoSession
                    /\ current_session_id \in DOMAIN sessions
                 THEN current_session_id ELSE NoSession>>
    /\ UNCHANGED <<sessions, current_session_id, sfile, blendFiles, snow,
                   nextSid, tpc, targ>>

\* list()
SList ==
    /\ UNCHANGED <<jobVars, bridgeVars>>
    /\ AllIdle
    /\ sret' = <<"list", DOMAIN sessions>>
    /\ UNCHANGED <<sessions, current_session_id, sfile, blendFiles, snow,
                   nextSid, tpc, targ>>

\* switch(session_id), called with no other call in progress
SSwitch(sid) ==
    /\ UNCHANGED <<jobVars, bridgeVars>>
    /\ AllIdle
    /\ IF SwitchFound(sessions, sid)
       THEN /\ current_session_id' = sid
            /\ sfile' = SaveIndex(sessions, sid)
            /\ sret' = <<"switch", sid, "ok">>
       ELSE /\ sret' = <<"switch", sid, NotFoundError>>
            /\ UNCHANGED <<current_session_id, sfile>>
    /\ UNCHANGED <<sessions, blendFiles, snow, nextSid, tpc, targ>>

\* delete(session_id), called with no other call in progress
SDelete(sid) ==
    /\ UNCHANGED <<jobVars, bridgeVars>>
    /\ AllIdle
    /\ IF sid \notin DOMAIN sessions
       THEN /\ sret' = <<"delete", sid, "False">>
            /\ UNCHANGED <<sessions, current_session_id, sfile, blendFiles>>
       ELSE IF DeleteRefused(sessions[sid])
       THEN /\ sret' = <<"delete", sid, DefaultError>>
            /\ UNCHANGED <<sessions, current_session_id, sfile, blendFiles>>
       ELSE LET ss == Without(sessions, sid)
                cur == CurrentAfterDelete(current_session_id, sid, ss)
            IN /\ blendFiles' = FilesAfterUnlink(blendFiles, sid)
               /\ sessions' = ss
               /\ current_session_id' = cur
               /\ sfile' = SaveIndex(ss, cur)
               /\ sret' = <<"delete", sid, "True">>
    /\ UNCHANGED <<snow, nextSid, tpc, targ>>

\* reset(session_id=None)
SReset(arg) ==
    /\ UNCHANGED <<jobVars, bridgeVars>>
    /\ AllIdle
    /\ LET sid == OrCurrent(arg) IN
       IF sid = NoSession
       THEN /\ sret' = <<"reset", arg, NoCurrentError>>
            /\ UNCHANGED <<sessions, sfile, blendFiles>>
       ELSE IF sid \notin DOMAIN sessions
       THEN /\ sret' = <<"reset", arg, NotFoundError>>
            /\ UNCHANGED <<sessions, sfile, blendFiles>>
       ELSE LET ss == [sessions EXCEPT ![sid].modified_at = ModifiedAt(@, snow)]
            IN /\ blendFiles' = FilesAfterUnlink(blendFiles, sid)
               /\ sessions' = ss
               /\ sfile' = SaveIndex(ss, current_session_id)
               /\ sret' = <<"reset", arg, "ok">>
    /\ UNCHANGED <<current_session_id, snow, nextSid, tpc, targ>>

\* update_modified(session_id=None)
SUpdateModified(arg) ==
    /\ UNCHANGED <<jobVars, bridgeVars>>
    /\ AllIdle
    /\ LET sid == OrCurrent(arg) IN
       IF sid # NoSession /\ sid \in DOMAIN sessions
       THEN LET ss == [sessions EXCEPT ![sid].modified_at = snow]
            IN /\ sessions' = ss
               /\ sfile' = SaveIndex(ss, current_session_id)
       ELSE UNCHANGED <<sessions, sfile>>
    /\ sret' = <<"update_modified", arg>>
    /\ UNCHANGED <<current_session_id, blendFiles, snow, nextSid, tpc, targ>>

\* SceneHandler._save.  toSession: no filepath was given and Blender's scene
\* has not been saved yet, so the current session's backing file is written
\* (get_blend_file, save_as_mainfile); otherwise the scene goes to the given
\* path or to the file Blender already has open.  Then update_modified().
SceneSave(toSession) ==
    /\ UNCHANGED <<jobVars, bridgeVars>>
    /\ AllIdle
    /\ IF toSession /\ current_session_id = NoSession
       THEN /\ sret' = <<"scene.save", NoCurrentError>>
            /\ UNCHANGED <<sessions, sfile, blendFiles>>
       ELSE IF toSession /\ current_session_id \notin DOMAIN sessions
       THEN /\ sret' = <<"scene.save", NotFoundError>>
            /\ UNCHANGED <<sessions, sfile, blendFiles>>
       ELSE /\ blendFiles' = IF toSession THEN blendFiles \cup {current_session_id}
                             ELSE blendFiles
            /\ IF current_session_id # NoSession
                  /\ current_session_id \in DOMAIN sessions
               THEN LET ss == [sessions EXCEPT
                                 ![current_session_id].modified_at = snow]
                    IN /\ sessions' = ss
                       /\ sfile' = SaveIndex(ss, current_session_id)
               ELSE UNCHANGED <<sessions, sfile>>
            /\ sret' = <<"scene.save", "ok">>
    /\ UNCHANGED <<current_session_id, snow, nextSid, tpc, targ>>

\* the process ends and a new one constructs SessionManager()
SReboot ==
    /\ UNCHANGED <<jobVars, bridgeVars>>
    /\ sessions' = BootSessions(sfile, blendFiles, snow)
    /\ current_session_id' = DefaultOf(BootSessions(sfile, blendFiles, snow))
    /\ sfile' = BootFile(sfile, blendFiles, snow)
    /\ tpc' = [t \in Threads |-> "idle"]
    /\ targ' = [t \in Threads |-> NoSession]
    /\ sret' = <<"boot">>
    /\ UNCHANGED <<blendFiles, snow, nextSid>>

(***************************************************************************)
(* switch and delete called from two threads.  SessionManager takes no     *)
(* lock, so the statements of one call interleave with those of another;   *)
(* each action below is one statement (or one run of statements that read  *)
(* or write the shared fields once).                                       *)
(***************************************************************************)
\* switch: session = self.sessions.get(session_id); if not session: raise
TSwitchCall(t, sid) ==
    /\ UNCHANGED <<jobVars, bridgeVars>>
    /\ tpc[t] = "idle"
    /\ IF SwitchFound(sessions, sid)
       THEN /\ tpc' = [tpc EXCEPT ![t] = "switch_assign"]
            /\ targ' = [targ EXCEPT ![t] = sid]
            /\ sret' = NoSessCall
       ELSE /\ sret' = <<"switch", sid, NotFoundError>>
            /\ UNCHANGED <<tpc, targ>>
    /\ UNCHANGED <<sessions, current_session_id, sfile, blendFiles, snow, nextSid>>

\* switch: self.current_session_id = session_id
TSwitchAssign(t) ==
    /\ UNCHANGED <<jobVars, bridgeVars>>
    /\ tpc[t] = "switch_assign"
    /\ current_session_id' = targ[t]
    /\ tpc' = [tpc EXCEPT ![t] = "switch_save"]
    /\ sret' = NoSessCall
    /\ UNCHANGED <<sessions, sfile, blendFiles, snow, nextSid, targ>>

\* switch: self._save_sessions(); return session
TSwitchSave(t) ==
    /\ UNCHANGED <<jobVars, bridgeVars>>
    /\ tpc[t] = "switch_save"
    /\ sfile' = SaveIndex(sessions, current_session_id)
    /\ sret' = <<"switch", targ[t], "ok">>
    /\ tpc' = [tpc EXCEPT ![t] = "idle"]
    /\ targ' = [targ EXCEPT ![t] = NoSession]
    /\ UNCHANGED <<sessions, current_session_id, blendFiles, snow, nextSid>>

\* delete: session = self.sessions.get(session_id); the two early exits
TDeleteCall(t, sid) ==
    /\ UNCHANGED <<jobVars, bridgeVars>>
    /\ tpc[t] = "idle"
    /\ IF sid \notin DOMAIN sessions
       THEN /\ sret' = <<"delete", sid, "False">>
            /\ UNCHANGED <<tpc, targ>>
       ELSE IF DeleteRefused(sessions[sid])
       THEN /\ sret' = <<"delete", sid, DefaultError>>
            /\ UNCHANGED <<tpc, targ>>
       ELSE /\ tpc' = [tpc EXCEPT ![t] = "delete_unlink"]
            /\ targ' = [targ EXCEPT ![t] = sid]
            /\ sret' = NoSessCall
    /\ UNCHANGED <<sessions, current_session_id, sfile, blendFiles, snow, nextSid>>

\* delete: if blend_path.exists(): blend_path.unlink()
TDeleteUnlink(t) ==
    /\ UNCHANGED <<jobVars, bridgeVars>>
    /\ tpc[t] = "delete_unlink"
    /\ blendFiles' = FilesAfterUnlink(blendFiles, targ[t])
    /\ tpc' = [tpc EXCEPT ![t] = "delete_del"]
    /\ sret' = NoSessCall
    /\ UNCHANGED <<sessions, current_session_id, sfile, snow, nextSid, targ>>

\* delete: del self.sessions[session_id] (KeyError when another delete of
\* the same id got there first)
TDeleteDel(t) ==
    /\ UNCHANGED <<jobVars, bridgeVars>>
    /\ tpc[t] = "delete_del"
    /\ IF targ[t] \in DOMAIN sessions
       THEN /\ sessions' = Without(sessions, targ[t])
            /\ tpc' = [tpc EXCEPT ![t] = "delete_repoint"]
            /\ sret' = NoSessCall
            /\ UNCHANGED targ
       ELSE /\ sret' = <<"delete", targ[t], "KeyError">>
            /\ tpc' = [tpc EXCEPT ![t] = "idle"]
            /\ targ' = [targ EXCEPT ![t] = NoSession]
            /\ UNCHANGED sessions
    /\ UNCHANGED <<current_session_id, sfile, blendFiles, snow, nextSid>>

\* delete: if self.current_session_id == session_id: ... = default.id
TDeleteRepoint(t) ==
    /\ UNCHANGED <<jobVars, bridgeVars>>
    /\ tpc[t] = "delete_repoint"
    /\ current_session_id' = CurrentAfterDelete(current_session_id, targ[t], sessions)
    /\ tpc' = [tpc EXCEPT ![t] = "delete_save"]
    /\ sret' = NoSessCall
    /\ UNCHANGED <<sessions, sfile, blendFiles, snow, nextSid, targ>>

\* delete: self._save_sessions(); return True
TDeleteSave(t) ==
    /\ UNCHANGED <<jobVars, bridgeVars>>
    /\ tpc[t] = "delete_save"
    /\ sfile' = SaveIndex(sessions, current_session_id)
    /\ sret' = <<"delete", targ[t], "True">>
    /\ tpc' = [tpc EXCEPT ![t] = "idle"]
    /\ targ' = [targ EXCEPT ![t] = NoSession]
    /\ UNCHANGED <<sessions, current_session_id, blendFiles, snow, nextSid>>

NextJobs ==
    \/ Submit
    \/ \E j \in JobIds : SubmitPut(j)
    \/ \E j \in JobIds \cup {0} : Cancel(j)
    \/ Start
    \/ \E w \in Workers : WorkerGet(w)
    \/ \E w \in Workers : WorkerClaim(w)
    \/ \E w \in Workers, p \in ProgressInputs : WorkerProgress(w, p)
    \/ \E w \in Workers : WorkerReturn(w)
    \/ \E w \in Workers : WorkerRaise(w)
    \/ \E w \in Workers : WorkerFinally(w)
    \/ Restart

Init == InitJobs /\ InitBridge /\ InitSessions

SpecJobs == Init /\ [][NextJobs]_vars

\* one process lifetime with cleanup() called at any moment
NextJobsCleanup ==
    \/ STick
    \/ Submit
    \/ \E j \in JobIds : SubmitPut(j)
    \/ \E j \in JobIds : Cancel(j)
    \/ Start
    \/ \E w \in Workers : WorkerGet(w)
    \/ \E w \in Workers : WorkerClaim(w)
    \/ \E w \in Workers : WorkerReturn(w)
    \/ \E w \in Workers : WorkerRaise(w)
    \/ \E w \in Workers : WorkerFinally(w)
    \/ \E cutoff \in Cutoffs : Cleanup(cutoff)

SpecJobsCleanup == Init /\ [][NextJobsCleanup]_vars

\* one process lifetime with a caller of wait()
NextJobsWait ==
    \/ Submit
    \/ \E j \in JobIds : SubmitPut(j)
    \/ \E j \in JobIds : Cancel(j)
    \/ Start
    \/ \E w \in Workers : WorkerGet(w)
    \/ \E w \in Workers : WorkerClaim(w)
    \/ \E w \in Workers : WorkerReturn(w)
    \/ \E w \in Workers : WorkerRaise(w)
    \/ \E w \in Workers : WorkerFinally(w)
    \/ \E j \in JobIds, t \in WaitTimeouts : WaitCall(j, t)
    \/ WaitExpire
    \/ WaitPoll

SpecJobsWait == Init /\ [][NextJobsWait]_vars

\* the same with a caller thread that keeps running: the polling loop of
\* wait() goes round every 0.1 s, so a round that can end the call happens
SpecJobsWaitFair == SpecJobsWait /\ WF_waiting(WaitPoll)

\* one process lifetime in which the owner calls start() and stop() at any
\* moment, handlers report any progress value and the dispatcher reads jobs
NextJobsLife ==
    \/ Submit
    \/ \E j \in JobIds : SubmitPut(j)
    \/ Start
    \/ Stop
    \/ StopSave
    \/ \E w \in Workers : WorkerGet(w)
    \/ \E w \in Workers : WorkerClaim(w)
    \/ \E w \in Workers, p \in AnyProgress : WorkerProgress(w, p)
    \/ \E w \in Workers : WorkerReturn(w)
    \/ \E w \in Workers : WorkerRaise(w)
    \/ \E w \in Workers : WorkerFinally(w)
    \/ \E w \in Workers : WorkerExit(w)
    \/ \E j \in JobIds : Get(j)
    \/ \E status \in {None, RUNNING} : List(status)

SpecJobsLife == Init /\ [][NextJobsLife]_vars

\* one process lifetime without stop()
NextJobsRun ==
    \/ Submit
    \/ \E j \in JobIds : SubmitPut(j)
    \/ \E j \in JobIds : Cancel(j)
    \/ Start
    \/ \E w \in Workers : WorkerGet(w)
    \/ \E w \in Workers : WorkerClaim(w)
    \/ \E w \in Workers, p \in ProgressInputs : WorkerProgress(w, p)
    \/ \E w \in Workers : WorkerReturn(w)
    \/ \E w \in Workers : WorkerRaise(w)
    \/ \E w \in Workers : WorkerFinally(w)

\* the steps that must happen once they can: the put of submit(), and the
\* steps of the worker threads, where a handler returns or raises in finite
\* time however often it reports progress
RunStep ==
    \/ \E j \in JobIds : SubmitPut(j)
    \/ \E w \in Workers : WorkerGet(w)
    \/ \E w \in Workers : WorkerClaim(w)
    \/ \E w \in Workers : WorkerReturn(w) \/ WorkerRaise(w)
    \/ \E w \in Workers : WorkerFinally(w)

\* every such step changes wpc or toPut
SpecJobsFair == Init /\ [][NextJobsRun]_vars /\ WF_<<wpc, toPut>>(RunStep)

\* one process lifetime of a JobQueue constructed over a full jobs.json
NextJobsBurst ==
    \/ Submit
    \/ \E j \in JobIds : SubmitPut(j)
    \/ Cancel(OldestId)
    \/ Start
    \/ \E w \in Workers : WorkerGet(w)
    \/ \E w \in Workers : WorkerClaim(w)
    \/ \E w \in Workers : WorkerReturn(w)
    \/ \E w \in Workers : WorkerRaise(w)
    \/ \E w \in Workers : WorkerFinally(w)

InitBurst == InitJobsFromLog /\ InitBridge /\ InitSessions

SpecJobsBurst == InitBurst /\ [][NextJobsBurst]_vars

NextBridge ==
    \/ \E kind \in ConnKinds, id \in ReqIds : SockAccept(kind, id)
    \/ SockRecvRequest
    \/ SockRecvMalformed
    \/ SockRecvTimeout
    \/ SockRecvEmpty
    \/ SockEnqueue
    \/ SockWaitOk
    \/ SockRespond
    \/ SockWaitTimeout
    \/ AffineTick
    \/ AffineTake
    \/ AffineBreak
    \/ AffineRead
    \/ AffineWrite
    \/ AffineRaise
    \/ AffineStore
    \/ AffineSignal

SpecBridge == Init /\ [][NextBridge]_vars

\* the bridge with clients that also send the method "stop"
NextBridgeStop ==
    \/ \E kind \in ConnKinds, id \in ReqIds : SockAccept(kind, id)
    \/ SockRecvRequest
    \/ SockRecvMalformed
    \/ SockRecvTimeout
    \/ SockRecvEmpty
    \/ SockEnqueue
    \/ SockWaitOk
    \/ SockRespond
    \/ SockWaitTimeout
    \/ AffineTick
    \/ AffineTake
    \/ AffineBreak
    \/ AffineRead
    \/ AffineWrite
    \/ AffineRaise
    \/ AffineStop
    \/ AffineStore
    \/ AffineSignal

SpecBridgeStop == Init /\ [][NextBridgeStop]_vars

\* the steps of the affine thread
AffineStep ==
    \/ AffineTick
    \/ AffineTake
    \/ AffineBreak
    \/ AffineRead
    \/ AffineWrite
    \/ AffineRaise
    \/ AffineStore
    \/ AffineSignal

\* the bridge with a timer that keeps firing (process_queue returns 0.01, so
\* it is called again) and operations that return or raise in finite time;
\* every step of the affine thread changes apc
SpecBridgeFair == SpecBridge /\ WF_apc(AffineStep)

\* calls made one after the other (every call runs to its end)
NextSessions ==
    \/ STick
    \/ \E name \in Names : SCreate(name)
    \/ \E sid \in SessIds \cup {DefaultId} : SGet(sid)
    \/ SGetCurrent
    \/ SList
    \/ \E sid \in SessIds \cup {DefaultId} : SSwitch(sid)
    \/ \E sid \in SessIds \cup {DefaultId} : SDelete(sid)
    \/ \E arg \in SessIds \cup {DefaultId, NoSession} : SReset(arg)
    \/ \E arg \in SessIds \cup {DefaultId, NoSession} : SUpdateModified(arg)
    \/ \E toSession \in BOOLEAN : SceneSave(toSession)
    \/ SReboot

SpecSessions == Init /\ [][NextSessions]_vars

\* switch and delete from two threads, statement by statement
NextSessionRace ==
    \/ \E name \in Names : SCreate(name)
    \/ \E t \in Threads, sid \in SessIds \cup {DefaultId} : TSwitchCall(t, sid)
    \/ \E t \in Threads : TSwitchAssign(t)
    \/ \E t \in Threads : TSwitchSave(t)
    \/ \E t \in Threads, sid \in SessIds \cup {DefaultId} : TDeleteCall(t, sid)
    \/ \E t \in Threads : TDeleteUnlink(t)
    \/ \E t \in Threads : TDeleteDel(t)
    \/ \E t \in Threads : TDeleteRepoint(t)
    \/ \E t \in Threads : TDeleteSave(t)

SpecSessionRace == Init /\ [][NextSessionRace]_vars

(***************************************************************************)
(* Claims about the job queue                                              *)
(***************************************************************************)
Occurrences(q, x) == Cardinality({i \in 1..Len(q) : q[i] = x})

AllowedTransitions ==
    {<<PENDING, RUNNING>>, <<RUNNING, COMPLETED>>, <<RUNNING, FAILED>>,
     <<PENDING, CANCELLED>>}

\* C1: under submit, cancel, worker pick-up, handler return, handler raise
\* and progress events (in a process that was never restarted) a job's
\* status only moves Pending -> Running -> Completed|Failed or
\* Pending -> Cancelled, and once the status is Completed, Failed or
\* Cancelled the job's status, result and error never change again.
C1_StatusMonotonicTerminalFrozen ==
    [][epoch' = 0 =>
        \A j \in DOMAIN jobs \cap DOMAIN jobs' :
            /\ \/ jobs'[j].status = jobs[j].status
               \/ <<jobs[j].status, jobs'[j].status>> \in AllowedTransitions
            /\ jobs[j].status \in Terminal =>
                  /\ jobs'[j].status = jobs[j].status
                  /\ jobs'[j].result = jobs[j].result
                  /\ jobs'[j].error = jobs[j].error]_vars

\* C2: cancel(job_id) returns true exactly when the job exists and is
\* Pending at the call, and then the job is Cancelled; a cancel of a
\* Running, terminal or unknown job returns false and changes nothing.
C2_CancelTrueIffPending ==
    [][ret'[1] = "cancel" =>
        LET j == ret'[2]
            r == ret'[3]
        IN /\ r = (j \in DOMAIN jobs /\ jobs[j].status = PENDING)
           /\ r => jobs'[j].status = CANCELLED
           /\ ~r => UNCHANGED <<jobs, handlers, queue, disk>>]_vars

\* C2 witness: a cancel of a Running job has just returned false, after a
\* cancel of another, Pending, job returned true.
C2_Witness ==
    \E j \in DOMAIN jobs :
        /\ ret = <<"cancel", j, FALSE>>
        /\ jobs[j].status = RUNNING
        /\ cancelledOk # {}

\* C3: if cancel(job_id) returned true, the handler of that job is never
\* invoked, whatever the interleaving with the worker that takes the id off
\* the queue.
C3_CancelledNeverInvoked ==
    \A j \in cancelledOk : invoked[j] = 0

\* C3 witness: cancel returned true for a job whose id a worker had already
\* taken off the queue (the worker is between queue.get and _process_job).
C3_Witness ==
    \E j \in cancelledOk, w \in Workers :
        /\ ret = <<"cancel", j, TRUE>>
        /\ wpc[w] = "got"
        /\ wjob[w] = j

\* C4: a job that was Pending or Running when the process stopped is
\* re-executed after the restart: when it has ended Completed or Failed in
\* the new process, its handler has been invoked there at least once.
C4_ReloadedJobsReexecuted ==
    \A j \in DOMAIN loaded \cap DOMAIN jobs :
        (/\ loaded[j] \in {PENDING, RUNNING}
         /\ j \notin cancelledOk
         /\ jobs[j].status \in {COMPLETED, FAILED})
            => invoked[j] >= 1

\* C5: constructing a JobQueue from a persisted log loads every persisted
\* Pending or Running job as Pending with progress 0.0 and puts its id on
\* the work queue exactly once; every persisted Completed, Failed or
\* Cancelled job is loaded unchanged and is not enqueued.
C5_LoadRequeuesInFlightOnce ==
    [][epoch' # epoch =>
        /\ DOMAIN jobs' = DOMAIN disk
        /\ \A j \in DOMAIN disk :
              IF disk[j].status \in {PENDING, RUNNING}
              THEN /\ jobs'[j].status = PENDING
                   /\ jobs'[j].progress = 0
                   /\ Occurrences(queue', j) = 1
              ELSE /\ jobs'[j] = disk[j]
                   /\ Occurrences(queue', j) = 0]_vars

\* C5 witness: right after a load, a job persisted as Running with progress
\* above 0 is Pending with progress 0 and queued, and a persisted terminal
\* job is loaded as it was.
C5_Witness ==
    /\ epoch > 0
    /\ ~running
    /\ \E j \in DOMAIN loaded, k \in DOMAIN loaded :
          /\ loaded[j] = RUNNING
          /\ disk[j].status = RUNNING
          /\ disk[j].progress > 0
          /\ jobs[j].status = PENDING
          /\ jobs[j].progress = 0
          /\ Occurrences(queue, j) = 1
          /\ loaded[k] \in Terminal
          /\ jobs[k] = disk[k]

\* C9: every mutation of worker-native state executes on the affine thread;
\* the handlers the job queue runs never mutate it on a job-worker thread.
C9_MutationsOnAffineThread ==
    \A t \in NativeMutators : t = AffineThread

(***************************************************************************)
(* Claims about the bridge and the socket loop                             *)
(***************************************************************************)
\* C6: every connection that delivered a well-formed request line gets
\* exactly one response, whose id is the request's id, whether the
\* operation succeeded, raised or the wait timed out.
C6_OneResponseWithRequestId ==
    /\ \A n \in DOMAIN responses : Len(responses[n]) <= 1
    /\ \A n \in closed :
          accepted[n].kind = "wellformed" =>
              /\ Len(responses[n]) = 1
              /\ responses[n][1].id = accepted[n].id

\* C6 witness: three well-formed requests with the same id were answered, one
\* by a timeout, one with a result and one with an error.
C6_Witness ==
    \E n1 \in closed, n2 \in closed, n3 \in closed :
        /\ accepted[n1].kind = "wellformed"
        /\ accepted[n2].kind = "wellformed"
        /\ accepted[n3].kind = "wellformed"
        /\ accepted[n1].id = accepted[n2].id
        /\ accepted[n1].id = accepted[n3].id
        /\ responses[n1][1].message = "Operation timed out"
        /\ responses[n2][1].ok
        /\ responses[n3][1].message = "exception"

\* C7: a connection whose read times out before a full line arrived is sent
\* exactly one Failure response with code Timeout before it is closed; no
\* connection that carried request bytes is closed without a response.
C7_ReadTimeoutAnswered ==
    \A n \in closed :
        /\ accepted[n].kind = "stall" =>
              /\ Len(responses[n]) = 1
              /\ ~responses[n][1].ok
              /\ responses[n][1].code = "TIMEOUT"
        /\ accepted[n].kind # "empty" => Len(responses[n]) = 1

\* the bridge is at rest: no request is being handled, no operation is
\* queued or being executed
BridgeAtRest ==
    /\ spc = "accept"
    /\ operation_queue = <<>>
    /\ apc \in {"idle", "drain"}

\* C8: once handle_request has returned (by success or by timeout) and the
\* affine thread has executed every operation, abandoned ones included, no
\* completion event and no stored result remains for any request id.
C8_NoRegistrationLeft ==
    BridgeAtRest =>
        /\ DOMAIN result_events = {}
        /\ DOMAIN result_store = {}

\* the requests of execLog, in the order of execution
ExecOrder == [i \in 1..Len(execLog) |-> execLog[i].n]

\* the counter values the successful operations produced, in order
OkValues == SelectSeq(execLog, LAMBDA e : e.status = "ok")

\* C10: the affine thread executes the dispatched operations one at a time
\* in the order they were enqueued; the counter values the operations
\* produce are 1, 2, 3, ...: none duplicated, none skipped.
C10_SerializedInFifoOrder ==
    /\ Len(ExecOrder) <= Len(enqLog)
    /\ ExecOrder = SubSeq(enqLog, 1, Len(ExecOrder))
    /\ \A i \in 1..Len(OkValues) : OkValues[i].value = i
    /\ counter = Len(OkValues)

\* C10 witness: two operations were queued at the same time (the waiter of
\* the first had timed out) and both have been executed, each incrementing
\* the counter.
C10_Witness ==
    /\ Len(OkValues) >= 2
    /\ \E n \in closed :
          /\ accepted[n].kind = "wellformed"
          /\ responses[n][1].message = "Operation timed out"
          /\ execLog[2].n > n
          /\ execLog[1].n = n
    /\ \E i \in 1..Len(enqLog) : enqLog[i] \in closed /\ i < Len(enqLog)


(***************************************************************************)
(* Claims about the session manager                                        *)
(***************************************************************************)
\* the sessions of the index flagged is_default
Defaults == {sid \in DOMAIN sessions : sessions[sid].is_default}

\* C11: in every reachable state (after boot and after any sequence of
\* create, switch, delete, reset, update_modified and reboot) exactly one
\* session of the index has is_default = true.
C11_ExactlyOneDefault == Cardinality(Defaults) = 1

\* a reboot has loaded a created session next to the default one
C11_Witness ==
    /\ sret = <<"boot">>
    /\ Cardinality(DOMAIN sessions) = 2
    /\ Cardinality(Defaults) = 1

\* C12: after boot, and after any sequence of create, switch, delete, reset
\* and update_modified, current_session_id is set and names a session of the
\* index, so get_current() returns a session.
C12_CurrentInIndex ==
    /\ current_session_id # NoSession
    /\ current_session_id \in DOMAIN sessions
    /\ sret[1] = "get_current" => sret[2] \in DOMAIN sessions

\* get_current() returned a created session, after a switch to it
C12_Witness ==
    /\ sret[1] = "get_current"
    /\ sret[2] \in SessIds
    /\ sret[2] = current_session_id
    /\ DefaultId \in DOMAIN sessions

\* C13: delete of the default session always fails with the error for an
\* invalid operation (ValueError "Cannot delete default session") and leaves
\* the index, the current pointer and the backing files unchanged.
C13_DeleteDefaultRefused ==
    [][(sret'[1] = "delete" /\ sret'[2] \in DOMAIN sessions
        /\ sessions[sret'[2]].is_default)
       => /\ sret'[3] = DefaultError
          /\ UNCHANGED <<sessions, current_session_id, blendFiles, sfile>>]_vars

\* delete(default) was refused while the default session has a backing file
C13_Witness ==
    /\ sret = <<"delete", DefaultId, DefaultError>>
    /\ DefaultId \in blendFiles
    /\ DefaultId \in DOMAIN sessions

\* C14: delete of an existing non-default session returns True, removes it
\* from list() and removes its backing file (also when the file was absent);
\* if it was the current session the pointer moves to the default session,
\* otherwise the pointer is unchanged; every other session is unchanged.
C14_DeleteRemoves ==
    [][(sret'[1] = "delete" /\ sret'[2] \in DOMAIN sessions
        /\ ~sessions[sret'[2]].is_default)
       => /\ sret'[3] = "True"
          /\ DOMAIN sessions' = DOMAIN sessions \ {sret'[2]}
          /\ sret'[2] \notin blendFiles'
          /\ blendFiles' \ {sret'[2]} = blendFiles \ {sret'[2]}
          /\ \A sid \in DOMAIN sessions' : sessions'[sid] = sessions[sid]
          /\ current_session_id' =
                IF current_session_id = sret'[2]
                THEN CHOOSE d \in DOMAIN sessions : sessions[d].is_default
                ELSE current_session_id
          /\ sfile' = SaveIndex(sessions', current_session_id')]_vars

\* a created session has been deleted and is gone from the index and from
\* the disk, while the other created session and its backing file remain
C14_Witness ==
    /\ sret[1] = "delete"
    /\ sret[3] = "True"
    /\ sret[2] \notin DOMAIN sessions
    /\ sret[2] \notin blendFiles
    /\ \E sid \in SessIds : sid \in DOMAIN sessions /\ sid \in blendFiles

\* C15 (as stated): switch is the only operation that changes
\* current_session_id after the initial boot; create, delete, reset,
\* update_modified, get, get_current and list leave it unchanged.
C15_OnlySwitchChangesCurrent ==
    [][(sret'[1] \in {"create", "delete", "reset", "update_modified", "get",
                     "get_current", "list"})
       => current_session_id' = current_session_id]_vars

\* C15 (amended): switch, and delete of the current session (which moves the
\* pointer to the default session), are the only operations that change
\* current_session_id after boot; create, reset, update_modified, get,
\* get_current, list and delete of any other session leave it unchanged.
C15_OnlySwitchOrDeleteCurrent ==
    [][/\ (sret'[1] \in {"create", "reset", "update_modified", "get",
                        "get_current", "list"})
          => current_session_id' = current_session_id
       /\ (sret'[1] = "delete" /\ sret'[2] # current_session_id)
          => current_session_id' = current_session_id
       /\ (sret'[1] = "delete" /\ sret'[2] = current_session_id
           /\ sret'[3] = "True")
          => current_session_id' = DefaultOf(sessions)]_vars

\* a created session that was not the current one has been deleted while the
\* pointer was on another created session
C15_Witness ==
    /\ sret[1] = "delete"
    /\ sret[3] = "True"
    /\ current_session_id \in SessIds
    /\ current_session_id \in DOMAIN sessions

\* C16: switch to an id that is not in the index fails with the error for a
\* missing session (ValueError "Session not found") and leaves the current
\* pointer and the index unchanged; switch to an id that is in the index sets
\* current_session_id to that id and returns the session of that id.
C16_SwitchSetsOrFails ==
    [][(sret'[1] = "switch")
       => IF sret'[2] \in DOMAIN sessions
          THEN /\ sret'[3] = "ok"
               /\ current_session_id' = sret'[2]
               /\ sfile'.current = sret'[2]
               /\ UNCHANGED <<sessions, blendFiles>>
          ELSE /\ sret'[3] = NotFoundError
               /\ UNCHANGED <<sessions, current_session_id, sfile,
                              blendFiles>>]_vars

\* a switch to a deleted id has failed while the pointer is on a created
\* session, reached by an earlier switch
C16_Witness ==
    /\ sret[1] = "switch"
    /\ sret[3] = NotFoundError
    /\ sret[2] \notin DOMAIN sessions
    /\ sret[2] < nextSid
    /\ current_session_id \in SessIds

\* C17: sessions persist across restarts: every session that is in the index
\* when the process stops (whether or not its backing file has been written,
\* and also after a reset) is in the index, with the same id and name, after
\* the next boot.
C17_SessionsSurviveReboot ==
    [][(sret'[1] = "boot")
       => \A sid \in DOMAIN sessions :
             /\ sid \in DOMAIN sessions'
             /\ sessions'[sid].name = sessions[sid].name]_vars

\* the session reset() or update_modified() resolves its argument to
ResolvedId(arg, cur) == IF arg = NoSession THEN cur ELSE arg

\* C18: reset(session_id), or reset() on the current session, leaves the id,
\* name, is_default and metadata of the session, the set of sessions, every
\* other session and current_session_id unchanged, removes the backing file
\* and sets modified_at to the time of the call; reset of an id that is not
\* in the index fails and changes nothing.
C18_ResetKeepsIdentity ==
    [][(sret'[1] = "reset")
       => LET sid == ResolvedId(sret'[2], current_session_id) IN
          IF sid \in DOMAIN sessions
          THEN /\ sret'[3] = "ok"
               /\ DOMAIN sessions' = DOMAIN sessions
               /\ sessions'[sid].name = sessions[sid].name
               /\ sessions'[sid].is_default = sessions[sid].is_default
               /\ sessions'[sid].metadata = sessions[sid].metadata
               /\ sessions'[sid].modified_at = snow
               /\ \A o \in DOMAIN sessions \ {sid} : sessions'[o] = sessions[o]
               /\ current_session_id' = current_session_id
               /\ sid \notin blendFiles'
               /\ blendFiles' \ {sid} = blendFiles \ {sid}
          ELSE /\ sret'[3] \in {NotFoundError, NoCurrentError}
               /\ UNCHANGED <<sessions, current_session_id, sfile,
                              blendFiles>>]_vars

\* reset() without an argument has reset the current, created session at a
\* later time than its creation
C18_Witness ==
    /\ sret = <<"reset", NoSession, "ok">>
    /\ current_session_id \in SessIds
    /\ current_session_id \notin blendFiles
    /\ sessions[current_session_id].modified_at = MaxTime
    /\ sessions[DefaultId].modified_at = 0

\* the persisted sessions whose backing file exists
Loadable == {sid \in DOMAIN sfile.sessions : sid \in blendFiles}

\* C19: on boot the persisted sessions whose backing file is absent are
\* dropped, those whose file exists are loaded unchanged, a default session
\* is created if and only if no loaded session is the default one, and
\* current_session_id is set to the default session.
C19_BootLoadsExisting ==
    [][(sret'[1] = "boot")
       => /\ \A sid \in Loadable :
                sid \in DOMAIN sessions' /\ sessions'[sid] = sfile.sessions[sid]
          /\ IF \E sid \in Loadable : sfile.sessions[sid].is_default
             THEN DOMAIN sessions' = Loadable
             ELSE /\ DOMAIN sessions' = Loadable \cup {DefaultId}
                  /\ DefaultId \notin Loadable
                  /\ sessions'[DefaultId].is_default
                  /\ sessions'[DefaultId].name = "Default"
                  /\ sessions'[DefaultId].modified_at = snow
          /\ current_session_id' \in DOMAIN sessions'
          /\ sessions'[current_session_id'].is_default]_vars

\* a boot has loaded one created session, one created session is gone, and
\* the default session, which had no backing file, has been created anew
C19_Witness ==
    /\ sret = <<"boot">>
    /\ nextSid > MaxSessions
    /\ Cardinality(DOMAIN sessions \cap SessIds) = 1
    /\ DOMAIN sessions \cap SessIds \subseteq blendFiles
    /\ DefaultId \notin blendFiles
    /\ sessions[DefaultId].modified_at = MaxTime

\* C20: session-index operations called from different threads take effect
\* atomically: for every interleaving of switch(s) and delete(s) on the same
\* non-default session s, once both calls have returned current_session_id
\* names a session that is still in the index.
C20_CurrentInIndexAfterRace ==
    AllIdle => current_session_id \in DOMAIN sessions

(***************************************************************************)
(* Claims about malformed input                                            *)
(***************************************************************************)
\* C30: for every input line that does not decode as a Request the dispatcher
\* returns exactly one Failure response with code ParseError addressed to the
\* id "unknown", enqueues nothing for the affine thread, and the server loop
\* goes on to serve the next connection.
C30_MalformedLineAnswered ==
    [][(spc = "recv" /\ conn.kind = "malformed" /\ spc' # spc)
       => /\ Len(responses'[conn.n]) = 1
          /\ responses'[conn.n][1].id = "unknown"
          /\ responses'[conn.n][1].ok = FALSE
          /\ responses'[conn.n][1].code = "PARSE_ERROR"
          /\ conn.n \in closed'
          /\ UNCHANGED <<operation_queue, enqLog, result_events, result_store>>
          /\ spc' = "accept"]_vars

\* a malformed line was answered with the parse error and the connection
\* accepted after it got the result of its request
C30_Witness ==
    \E n \in DOMAIN accepted, m \in DOMAIN accepted :
        /\ n < m
        /\ accepted[n].kind = "malformed"
        /\ Len(responses[n]) = 1
        /\ responses[n][1].code = "PARSE_ERROR"
        /\ accepted[m].kind = "wellformed"
        /\ Len(responses[m]) = 1
        /\ responses[m][1].ok
        /\ responses[m][1].id = accepted[m].id

(***************************************************************************)
(* Claims about cleanup, wait and the workers                              *)
(***************************************************************************)
\* C21: cleanup(max_age_hours), for any max_age_hours and at any moment,
\* removes only jobs whose status is Completed, Failed or Cancelled; no
\* Pending or Running job is removed whatever its age, the jobs that stay are
\* unchanged, and the returned count is the number of jobs removed.
C21_CleanupEvictsOnlyTerminal ==
    [][(ret'[1] = "cleanup" /\ snow' = snow)
       => LET gone == DOMAIN jobs \ DOMAIN jobs' IN
          /\ DOMAIN jobs' \subseteq DOMAIN jobs
          /\ \A j \in gone : jobs[j].status \in Terminal
          /\ \A j \in DOMAIN jobs :
                jobs[j].status \in {PENDING, RUNNING} => j \in DOMAIN jobs'
          /\ \A j \in DOMAIN jobs' : jobs'[j] = jobs[j]
          /\ ret'[2] = Cardinality(gone)]_vars

\* a cleanup at the latest clock reading has removed one job and left a job
\* that has been Running since an earlier time
C21_Witness ==
    /\ ret = <<"cleanup", 1>>
    /\ snow = MaxTime
    /\ \E j \in DOMAIN jobs : jobs[j].status = RUNNING
    /\ Cardinality(DOMAIN jobs) = 1

\* C29: wait(job_id, timeout) returns a job only if the status of that job is
\* Completed, Failed or Cancelled when it is returned; it returns nothing
\* when the job id is unknown, and otherwise nothing only after the timeout
\* has elapsed; it never changes a job.
C29_WaitReturnsTerminalOrNothing ==
    [][(ret'[1] = "wait")
       => LET j == ret'[2] IN
          /\ UNCHANGED <<jobs, disk, handlers, queue>>
          /\ ret'[3] # None
                => /\ j \in DOMAIN jobs
                   /\ jobs[j].status \in Terminal
                   /\ ret'[3] = jobs[j].status
          /\ ret'[3] = None
                => \/ j \notin DOMAIN jobs
                   \/ /\ jobs[j].status \notin Terminal
                      /\ waiting.timeout # 0
                      /\ waiting.expired]_vars

\* a wait with a timeout has returned nothing while its job is Running
C29_Witness ==
    /\ ret[1] = "wait"
    /\ ret[3] = None
    /\ ret[2] \in DOMAIN jobs
    /\ jobs[ret[2]].status = RUNNING

\* the workers that hold a job id
Holding == {w \in Workers : wpc[w] \in {"got", "handler", "finally"}}

\* C22: when a worker takes a job id for which no handler is stored at claim
\* time, the job ends Failed with a descriptive error (also in the persisted
\* log), no exception escapes the worker, and the worker and the pool stay in
\* the loop, ready for the jobs submitted afterwards.
C22_NoHandlerFailsJobOnly ==
    [][\A w \in Workers :
          (/\ epoch' = epoch
           /\ wpc[w] = "got" /\ wpc'[w] # "got"
           /\ wjob[w] \in DOMAIN jobs /\ wjob[w] \notin handlers)
          => /\ jobs'[wjob[w]].status = FAILED
             /\ jobs'[wjob[w]].error # None
             /\ wjob[w] \in DOMAIN disk => disk'[wjob[w]].status = FAILED
             /\ wpc'[w] = "loop"
             /\ \A v \in Workers \ {w} : wpc'[v] = wpc[v]
             /\ UNCHANGED <<running, queue, handlers>>]_vars

\* a job has failed for want of a handler and a job submitted after it has
\* been run to completion
C22_Witness ==
    \E j \in DOMAIN jobs, k \in DOMAIN jobs :
        /\ j < k
        /\ jobs[j].status = FAILED
        /\ jobs[j].error = "No handler registered"
        /\ jobs[k].status = COMPLETED
        /\ invoked[k] = 1

\* C23: when the handler of a job raises, the job ends Failed with error set
\* to the exception message and completed_at set, its handler reference is
\* removed, and the worker that ran it returns to the loop to take the next
\* queued job.
C23_RaiseFailsJobOnly ==
    [][\A w \in Workers :
          /\ (/\ epoch' = epoch
              /\ wpc[w] = "handler" /\ wpc'[w] = "finally"
              /\ jobs'[wjob[w]].status # COMPLETED)
             => /\ jobs'[wjob[w]].status = FAILED
                /\ jobs'[wjob[w]].error = "exception"
                /\ jobs'[wjob[w]].completed_at # NoTime
                /\ wjob[w] \in DOMAIN disk' => disk'[wjob[w]] = jobs'[wjob[w]]
          /\ (/\ epoch' = epoch
              /\ wpc[w] = "finally" /\ wpc'[w] # "finally")
             => /\ wjob[w] \notin handlers'
                /\ wpc'[w] = "loop"
                /\ UNCHANGED <<running, queue, jobs>>]_vars

\* the handler of a job has raised, its reference is gone, and a job
\* submitted after it is in the hands of a worker
C23_Witness ==
    \E j \in DOMAIN jobs, k \in DOMAIN jobs :
        /\ j < k
        /\ jobs[j].status = FAILED
        /\ jobs[j].error = "exception"
        /\ j \notin handlers
        /\ jobs[k].status = RUNNING
        /\ \A w \in Holding : wjob[w] = k

\* C24: submit records a new job with status Pending and progress 0.0, stores
\* its handler, persists the table, and puts the id on the queue; nothing in
\* it waits for a worker: it can complete in every state, whether no worker
\* is running or every worker is inside a handler.
C24_SubmitRecordsAndReturns ==
    /\ [][(ret'[1] = "submit" /\ nextId' # nextId)
          => /\ ret'[2] \notin DOMAIN jobs
             /\ jobs'[ret'[2]].status = PENDING
             /\ jobs'[ret'[2]].progress = 0
             /\ ret'[2] \in handlers'
             /\ ret'[2] \in toPut'
             /\ disk'[ret'[2]].status = PENDING
             /\ UNCHANGED <<wpc, wjob, invoked, queue>>]_vars
    /\ [][\A j \in toPut : (j \notin toPut' /\ epoch' = epoch)
             => queue' = Append(queue, j)]_vars
    /\ [](nextId <= MaxJobs => ENABLED Submit)
    /\ [](\A j \in toPut : ENABLED SubmitPut(j))

\* two submits have completed, put included, the second while one worker is
\* inside the handler of the first job: both ids were recorded and queued
C24_Witness ==
    /\ epoch = 0
    /\ toPut = {}
    /\ \E w \in Workers : wpc[w] = "handler" /\ wjob[w] = 1
    /\ 2 \in DOMAIN jobs /\ jobs[2].status = PENDING
    /\ queue = <<2>>

\* C25: with two or more workers running, each job is claimed (Pending ->
\* Running) by exactly one worker and finalized by that same worker; no two
\* workers ever hold the same job and the handler of a job is invoked at
\* most once in a process lifetime.
C25_OneWorkerPerJob ==
    /\ [](\A j \in JobIds : invoked[j] <= 1)
    /\ [](\A w \in Holding, v \in Holding : w # v => wjob[w] # wjob[v])
    /\ [][\A j \in DOMAIN jobs :
             /\ (epoch' = epoch /\ jobs[j].status = PENDING
                 /\ jobs'[j].status = RUNNING)
                => \E w \in Workers :
                      /\ wpc[w] = "got" /\ wjob[w] = j
                      /\ wpc'[w] = "handler" /\ wjob'[w] = j
             /\ (epoch' = epoch /\ jobs[j].status = RUNNING
                 /\ jobs'[j].status # RUNNING)
                => \E w \in Workers :
                      /\ wpc[w] = "handler" /\ wjob[w] = j
                      /\ wpc'[w] = "finally"]_vars

\* two workers are inside the handlers of two different jobs
C25_Witness ==
    \E w \in Workers, v \in Workers :
        /\ w # v
        /\ wpc[w] = "handler" /\ wpc[v] = "handler"
        /\ wjob[w] # wjob[v]
        /\ invoked[wjob[w]] = 1 /\ invoked[wjob[v]] = 1

\* C26: after any sequence of start(), stop(), submit and job completions the
\* number of live worker threads, and with it the number of Running jobs,
\* never exceeds max_workers.
C26_AtMostMaxWorkersLive ==
    /\ Cardinality(Live) <= MaxWorkers
    /\ Cardinality({j \in DOMAIN jobs : jobs[j].status = RUNNING}) <= MaxWorkers

\* C28: in every reachable state the progress of each job lies in [0,1],
\* whatever the handler passed to the progress callback and however the calls
\* interleave with get/list, and every Completed job has progress 1.0.
C28_ProgressInUnitInterval ==
    \A j \in DOMAIN jobs :
        /\ jobs[j].progress \in 0..10
        /\ jobs[j].status = COMPLETED => jobs[j].progress = 10

C31_WaitTimeoutCodeIsTimeout ==
    [][(spc = "wait" /\ conn.n \notin eventSet /\ spc' = "accept")
          => LET r == responses'[conn.n][Len(responses'[conn.n])]
             IN r.ok = FALSE /\ r.code = "TIMEOUT"]_vars

\* the waiter of request n gave up: its connection was answered with
\* "Operation timed out"
TimedOut(n) ==
    /\ n \in closed
    /\ Len(responses[n]) = 1
    /\ responses[n][1].message = "Operation timed out"

\* C32: a request whose waiter timed out is not cancelled: the timeout leaves
\* its operation on the queue (or in the hands of the affine thread), no
\* operation is ever executed twice, and the affine thread executes the
\* abandoned operation on a later tick.
C32_AbandonedStillExecutedOnce ==
    /\ [][(spc = "wait" /\ conn.n \notin eventSet /\ spc' = "accept")
            => UNCHANGED <<operation_queue, apc, execLog>>]_vars
    /\ [](\A n \in 1..MaxConns : Occurrences(ExecOrder, n) <= 1)
    /\ \A n \in 1..MaxConns : TimedOut(n) ~> (Occurrences(ExecOrder, n) = 1)

\* the waiter of a request timed out while its operation was still queued,
\* and the operation has been executed afterwards, after the connection was
\* closed
C32_Witness ==
    \E n \in closed :
        /\ TimedOut(n)
        /\ Occurrences(ExecOrder, n) = 1
        /\ result_store # EmptyMap
        /\ spc = "accept"
        /\ Cardinality(DOMAIN accepted) = n

\* the entry of the execution log for request n
ExecEntry(n) == execLog[CHOOSE i \in 1..Len(execLog) : execLog[i].n = n]

\* C33: an exception raised while the affine thread executes an operation is
\* caught and stored as ("error", message); the waiter turns it into a Failure
\* with code InternalError carrying that message; the affine thread goes on
\* draining the queue and the server loop goes back to accept.
C33_ExceptionBecomesInternalError ==
    /\ [][(apc = "exec" /\ apc' = "store")
            => /\ operation_queue' = operation_queue
               /\ spc' = spc]_vars
    /\ [][(apc = "signal" /\ apc' # apc) => apc' = "drain"]_vars
    /\ [][(spc = "popped" /\ spc' # spc /\ conn.got.status = "error"
           /\ conn.id \in DOMAIN result_events)
            => /\ spc' = "accept"
               /\ LET r == responses'[conn.n][1]
                  IN /\ r.ok = FALSE
                     /\ r.code = "INTERNAL_ERROR"
                     /\ r.message = conn.got.message
                     /\ r.id = conn.id]_vars
    /\ [](\A n \in closed :
            (/\ Len(responses[n]) = 1
             /\ responses[n][1].of # 0
             /\ ExecEntry(responses[n][1].of).status = "error")
            => /\ responses[n][1].ok = FALSE
               /\ responses[n][1].code = "INTERNAL_ERROR"
               /\ responses[n][1].message = "exception")

\* an operation raised, its client received the Failure with the message,
\* the affine thread executed a later operation and the server answered a
\* later connection with a result
C33_Witness ==
    \E n \in closed, m \in closed :
        /\ n < m
        /\ Len(responses[n]) = 1 /\ Len(responses[m]) = 1
        /\ responses[n][1].code = "INTERNAL_ERROR"
        /\ responses[n][1].message = "exception"
        /\ responses[n][1].of = n
        /\ responses[m][1].ok
        /\ responses[m][1].of = m

\* the stop request of connection n has been handled and answered
StopAnswered(n) ==
    /\ Len(responses[n]) = 1
    /\ responses[n][1].ok
    /\ responses[n][1].of = n
    /\ ExecEntry(n).message = "stopping"

\* C34: after a stop request has been handled the accept loop observes the
\* shutdown within one poll interval and stops accepting: at most the one
\* connection of the running poll interval is accepted after the stop was
\* answered.
C34_NoAcceptAfterStop ==
    \A n \in closed :
        StopAnswered(n) => \A m \in DOMAIN accepted : m <= n + 1

\* C36: the response returned for a request carries the result of executing
\* that request's own (method, params), whatever ids the clients choose,
\* including an id equal to the id of an earlier request whose waiter timed
\* out while its operation was still queued.
C36_ResponseIsOfOwnRequest ==
    \A n \in closed :
        (Len(responses[n]) = 1 /\ responses[n][1].of # 0)
            => responses[n][1].of = n

\* C35: on each tick process_queue drains the queue completely (it returns
\* only when the queue is empty); the operations are executed exactly once in
\* FIFO order; the (status, result) pair of an operation is stored under its
\* request id before its completion event is set, so a waiter woken by its
\* event finds a stored result.
C35_TickDrainsAndStoresBeforeSignal ==
    /\ [][(apc # "idle" /\ apc' = "idle") => operation_queue = <<>>]_vars
    /\ [](/\ Len(ExecOrder) <= Len(enqLog)
          /\ ExecOrder = SubSeq(enqLog, 1, Len(ExecOrder)))
    /\ [][eventSet' # eventSet => apc = "signal"]_vars
    /\ [][(apc = "store" /\ apc' = "signal")
            => result_store'[aitem.id] = aitem.result]_vars
    /\ [][(spc = "wait" /\ spc' = "popped")
            => conn.id \in DOMAIN result_store]_vars

\* C37: the most-recent-N bound of the persisted log never drops a Pending or
\* Running job: every job that is Pending or Running in memory is present in
\* the persisted log.
C37_InFlightJobsPersisted ==
    \A j \in DOMAIN jobs :
        jobs[j].status \in {PENDING, RUNNING} => j \in DOMAIN disk

\* C38: while the workers are running and every handler returns or raises in
\* finite time, every submitted job that is not cancelled eventually reaches
\* Completed or Failed: no job stays Pending or Running forever.
C38_EveryJobEventuallyTerminal ==
    \A j \in JobIds :
        (running /\ j \in DOMAIN jobs)
            ~> (j \in DOMAIN jobs
                /\ jobs[j].status \in {COMPLETED, FAILED, CANCELLED})

\* with the workers running, a job that had to wait in the queue behind
\* another has been run to its end
C38_Witness ==
    /\ running
    /\ \E j \in DOMAIN jobs, k \in DOMAIN jobs :
          /\ j < k
          /\ jobs[j].status \in {COMPLETED, FAILED}
          /\ jobs[k].status \in {COMPLETED, FAILED}
          /\ invoked[j] = 1 /\ invoked[k] = 1
          /\ \A w \in Workers : wpc[w] \in {"unstarted", "loop"}

\* C39: every job whose status is Completed, Failed or Cancelled has
\* completed_at set, on every path that reaches a terminal status (so that a
\* cleanup with a later cutoff evicts it).
C39_TerminalHasCompletedAt ==
    \A j \in DOMAIN jobs :
        jobs[j].status \in Terminal => jobs[j].completed_at # NoTime

\* C40: wait(job_id, timeout) called with any numeric timeout, 0 included,
\* returns once that timeout has elapsed, even if the job never reaches a
\* terminal status.
C40_NumericTimeoutReturns ==
    (waiting # NoWait /\ waiting.timeout # NoTimeout /\ waiting.expired)
        ~> (waiting = NoWait)

====
